---- MODULE Spec2Model ----
(***************************************************************************)
(* Model of app.py: the metric calculator carregar_e_processar_dados and   *)
(* the Streamlit script body that filters the table, computes the KPIs,    *)
(* groups by (Plataforma, Campanha) and emits the insights.                *)
(*                                                                         *)
(* A float cell is a record [k, n, d]: k = "num" is the rational n/d with  *)
(* d > 0 in lowest terms; k = "inf", "ninf", "nan" are the IEEE specials   *)
(* that pandas produces on a division by zero; k = "na" is pd.NA; k =      *)
(* "text" is a CSV cell that is not a number.  Rounding of binary floats   *)
(* is not modelled: arithmetic is exact.                                   *)
(* An identifier cell is a string; IdNaN is the empty CSV cell as read by  *)
(* read_csv and IdZero is the integer 0 that fillna(0) writes into it      *)
(* (identifier columns are object columns, as read_csv builds them in      *)
(* pandas 1.x and 2.x).                                                    *)
(*                                                                         *)
(* Streamlit reruns the whole script on every widget change, so one action *)
(* is one run of the script: the first run loads the file, later runs use  *)
(* the cached table.                                                       *)
(***************************************************************************)
EXTENDS Integers, Sequences, FiniteSets, TLC

VARIABLES csv, fase, df_metricas, plataforma_selecionada, campanha_selecionada,
          df_filtrado, kpis, df_campanhas, insights, erro, aviso

vars == <<csv, fase, df_metricas, plataforma_selecionada, campanha_selecionada,
          df_filtrado, kpis, df_campanhas, insights, erro, aviso>>

(* Longest table of the whole-script specification. *)
MaxRows == 2

(* ---------------------------------------------------------------------- *)
(* Float cells                                                            *)
(* ---------------------------------------------------------------------- *)
Abs(x) == IF x < 0 THEN -x ELSE x

RECURSIVE Gcd(_, _)
Gcd(a, b) == IF b = 0 THEN a ELSE Gcd(b, a % b)

Num(n, d) ==
    LET s == IF d < 0 THEN -1 ELSE 1
        g == Gcd(Abs(n), Abs(d))
    IN  [k |-> "num", n |-> (s * n) \div g, d |-> (s * d) \div g]

Int2F(i) == [k |-> "num", n |-> i, d |-> 1]
Zero == Int2F(0)
Inf  == [k |-> "inf",  n |-> 0, d |-> 1]
NInf == [k |-> "ninf", n |-> 0, d |-> 1]
NaN  == [k |-> "nan",  n |-> 0, d |-> 1]
NA   == [k |-> "na",   n |-> 0, d |-> 1]
Text == [k |-> "text", n |-> 0, d |-> 1]

IsNum(x) == x.k = "num"

(* float / float as numpy computes it on finite operands: x/0 is inf, -inf *)
(* or nan by the sign of x, without raising.                               *)
FDiv(a, b) ==
    IF ~(IsNum(a) /\ IsNum(b)) THEN NaN
    ELSE IF b.n = 0
         THEN (IF a.n > 0 THEN Inf ELSE IF a.n < 0 THEN NInf ELSE NaN)
         ELSE Num(a.n * b.d, a.d * b.n)

(* float * positive integer constant: the specials keep their kind. *)
FMulInt(a, c) == IF IsNum(a) THEN Num(a.n * c, a.d) ELSE a

FAdd(a, b) ==
    IF ~(IsNum(a) /\ IsNum(b)) THEN NaN
    ELSE Num(a.n * b.d + b.n * a.d, a.d * b.d)

(* a <= c, a > b, a < b on floats: every comparison with nan is False. *)
FLeqInt(a, c) ==
    CASE a.k = "num"  -> a.n <= c * a.d
      [] a.k = "ninf" -> TRUE
      [] OTHER        -> FALSE

FGt(a, b) == IsNum(a) /\ IsNum(b) /\ a.n * b.d > b.n * a.d
FLt(a, b) == IsNum(a) /\ IsNum(b) /\ a.n * b.d < b.n * a.d

RECURSIVE FSum(_)
FSum(s) == IF s = <<>> THEN Zero ELSE FAdd(Head(s), FSum(Tail(s)))

(* Series.mean() of a non-empty column without missing values. *)
FMean(s) == FDiv(FSum(s), Int2F(Len(s)))

Col(df, c) == [i \in 1..Len(df) |-> df[i][c]]

(* ---------------------------------------------------------------------- *)
(* Metric calculator: carregar_e_processar_dados                          *)
(* ---------------------------------------------------------------------- *)
IdNaN  == "<NaN>"
IdZero == "<0>"
IsStr(s) == s \notin {IdNaN, IdZero}

(* fillna(0) on one float cell and on one identifier cell. *)
FillnaF(x) == IF x.k \in {"nan", "na"} THEN Zero ELSE x
FillnaId(s) == IF s = IdNaN THEN IdZero ELSE s

(* pd.to_numeric(col, errors='coerce').fillna(0) on one cell. *)
ToNumeric(x) == FillnaF(IF x.k = "text" THEN NaN ELSE x)

(* lambda x: x if x <= 100 else 0 *)
PrevineCTR_Clamp(x) == IF FLeqInt(x, 100) THEN x ELSE Int2F(100)
PrevineCTR(x) == IF FLeqInt(x, 100) THEN x ELSE Zero

(* df.replace([inf, -inf], pd.NA).fillna(0) on one float cell. *)
TratarInfinitos_SoPositivo(x) == FillnaF(IF x.k = "inf" THEN NA ELSE x)
TratarInfinitos(x) == FillnaF(IF x.k \in {"inf", "ninf"} THEN NA ELSE x)

(* One CSV row through lines 21-46; r has the eight CSV columns. *)
ProcessarLinha(r) ==
    LET inv   == ToNumeric(r.Investimento)
        imp   == ToNumeric(r.Impressoes)
        clk   == ToNumeric(r.Cliques)
        leads == ToNumeric(r.Leads)
        cli   == ToNumeric(r.Novos_Clientes)
        out   == ToNumeric(r.Outros_Custos)
        ctr   == PrevineCTR(FMulInt(FDiv(clk, imp), 100))
        cpc   == FDiv(inv, clk)
        cpm   == FMulInt(FDiv(inv, imp), 1000)
        cpl   == FDiv(inv, leads)
        custo == FAdd(inv, out)
        cac   == FDiv(custo, cli)
    IN  [Plataforma         |-> FillnaId(r.Plataforma),
         Campanha           |-> FillnaId(r.Campanha),
         Investimento       |-> TratarInfinitos(inv),
         Impressoes         |-> TratarInfinitos(imp),
         Cliques            |-> TratarInfinitos(clk),
         Leads              |-> TratarInfinitos(leads),
         Novos_Clientes     |-> TratarInfinitos(cli),
         Outros_Custos      |-> TratarInfinitos(out),
         CTR                |-> TratarInfinitos(ctr),
         CPC                |-> TratarInfinitos(cpc),
         CPM                |-> TratarInfinitos(cpm),
         CPL                |-> TratarInfinitos(cpl),
         Custo_Total_Diario |-> TratarInfinitos(custo),
         CAC_Diario         |-> TratarInfinitos(cac)]

carregar_e_processar_dados(arquivo) ==
    [i \in 1..Len(arquivo) |-> ProcessarLinha(arquivo[i])]

(* ---------------------------------------------------------------------- *)
(* Script body: filter, KPIs, rollups, insights (lines 71-177)            *)
(* ---------------------------------------------------------------------- *)
cpl_limite_alerta == 50
ctr_limite == 1

(* Series.unique() as a set. *)
Unique(df, c) == {df[i][c] : i \in 1..Len(df)}

(* df[df['Plataforma'].isin(P) & df['Campanha'].isin(C)] *)
Filtrar_SoPlataforma(df, P, C) == SelectSeq(df, LAMBDA r : r.Plataforma \in P)
Filtrar(df, P, C) ==
    SelectSeq(df, LAMBDA r : r.Plataforma \in P /\ r.Campanha \in C)

(* options of the campaign multiselect (line 67). *)
OpcoesCampanha(df, P) ==
    Unique(SelectSeq(df, LAMBDA r : r.Plataforma \in P), "Campanha")

(* Order of the group keys: groupby sorts them (sort=True is the default). *)
(* Python orders the strings of the model as listed; an integer 0 among    *)
(* strings sorts first.                                                    *)
OrdemStr == <<"A", "B", "Google", "Meta">>
Rank(s) == IF s = IdZero THEN 0
           ELSE CHOOSE i \in 1..Len(OrdemStr) : OrdemStr[i] = s
KeyLess(a, b) ==
    \/ Rank(a[1]) < Rank(b[1])
    \/ Rank(a[1]) = Rank(b[1]) /\ Rank(a[2]) < Rank(b[2])

Chave(r) == <<r.Plataforma, r.Campanha>>
Chaves(df) == {Chave(df[i]) : i \in 1..Len(df)}

RECURSIVE Ordenar(_)
Ordenar(S) ==
    IF S = {} THEN <<>>
    ELSE LET m == CHOOSE x \in S : \A y \in S \ {x} : KeyLess(x, y)
         IN  <<m>> \o Ordenar(S \ {m})

(* Keys in the order of their first row (what sort=False would give). *)
RECURSIVE PrimeiraVista(_)
PrimeiraVista(df) ==
    IF df = <<>> THEN <<>>
    ELSE LET k == Chave(Head(df))
         IN  <<k>> \o PrimeiraVista(SelectSeq(Tail(df), LAMBDA r : Chave(r) # k))

Grupo_SoCampanha(df, k) == SelectSeq(df, LAMBDA r : r.Campanha = k[2])
Grupo(df, k) == SelectSeq(df, LAMBDA r : Chave(r) = k)

(* One row of .agg(...).reset_index() (lines 105-111). *)
Agg_SkipZeros(df, k) ==
    LET g  == Grupo(df, k)
        nz == SelectSeq(Col(g, "CPL"), LAMBDA x : x # Zero)
    IN  [Plataforma   |-> k[1],
         Campanha     |-> k[2],
         Investimento |-> FSum(Col(g, "Investimento")),
         Leads        |-> FSum(Col(g, "Leads")),
         Clientes     |-> FSum(Col(g, "Novos_Clientes")),
         CPL_Medio    |-> IF nz = <<>> THEN Zero ELSE FMean(nz),
         CTR_Medio    |-> FMean(Col(g, "CTR"))]
Agg(df, k) ==
    LET g == Grupo(df, k)
    IN  [Plataforma   |-> k[1],
         Campanha     |-> k[2],
         Investimento |-> FSum(Col(g, "Investimento")),
         Leads        |-> FSum(Col(g, "Leads")),
         Clientes     |-> FSum(Col(g, "Novos_Clientes")),
         CPL_Medio    |-> FMean(Col(g, "CPL")),
         CTR_Medio    |-> FMean(Col(g, "CTR"))]

GroupBy_SemOrdenar(df) ==
    LET ks == PrimeiraVista(df)
    IN  [i \in 1..Len(ks) |-> Agg(df, ks[i])]
GroupBy(df) ==
    LET ks == Ordenar(Chaves(df))
    IN  [i \in 1..Len(ks) |-> Agg(df, ks[i])]

(* KPIs of lines 82-92 over a non-empty filtered table. *)
Kpis_MediaDosRegistros(df) ==
    [cpc_medio |-> FMean(Col(df, "CPC")),
     ctr_medio |-> FMean(Col(df, "CTR")),
     cpl_medio |-> FMean(Col(df, "CPL")),
     cac_geral |-> FMean(Col(df, "CAC_Diario"))]
Kpis(df) ==
    LET total_investimento == FSum(Col(df, "Investimento"))
        total_clientes     == FSum(Col(df, "Novos_Clientes"))
        total_leads        == FSum(Col(df, "Leads"))
    IN  [cpc_medio |-> FMean(Col(df, "CPC")),
         ctr_medio |-> FMean(Col(df, "CTR")),
         cpl_medio |-> IF FGt(total_leads, Zero)
                       THEN FDiv(total_investimento, total_leads) ELSE Zero,
         cac_geral |-> IF FGt(total_clientes, Zero)
                       THEN FDiv(FSum(Col(df, "Custo_Total_Diario")), total_clientes)
                       ELSE Zero]

Insight(tipo, campanhas, valor) ==
    [tipo |-> tipo, campanhas |-> campanhas, valor |-> valor]

(* df_campanhas[df_campanhas['CPL Medio'] > cpl_limite_alerta] *)
CplAlto(camp) ==
    SelectSeq(camp, LAMBDA r : FGt(r.CPL_Medio, Int2F(cpl_limite_alerta)))

(* ", ".join(list) raises TypeError unless every item is a str. *)
JoinOk(lista) == \A i \in 1..Len(lista) : IsStr(lista[i])

(* total_investimento > 0 and ctr_medio < 1.0 *)
CtrBaixo(df) ==
    /\ FGt(FSum(Col(df, "Investimento")), Zero)
    /\ FLt(FMean(Col(df, "CTR")), Int2F(ctr_limite))

(* One run of the script below line 71.  "erro" is an exception that ends  *)
(* the run at the line that raised it; kpis is <<>> when no KPI was        *)
(* computed and <<k>> otherwise.                                           *)
Painel(df, P, C) ==
    LET f == Filtrar(df, P, C)
    IN  IF f = <<>>
        THEN [df_filtrado |-> f, kpis |-> <<>>, df_campanhas |-> <<>>,
              insights |-> <<>>, erro |-> FALSE, aviso |-> TRUE]
        ELSE
          LET camp  == GroupBy(f)
              alto  == CplAlto(camp)
              lista == Col(alto, "Campanha")
              i1    == IF alto # <<>>
                       THEN <<Insight("high_cpl_alert", lista, Int2F(cpl_limite_alerta))>>
                       ELSE <<Insight("ok", <<>>, Zero)>>
              i2    == IF CtrBaixo(f)
                       THEN <<Insight("low_ctr_warning", <<>>, FMean(Col(f, "CTR")))>>
                       ELSE <<>>
          IN  IF alto # <<>> /\ ~JoinOk(lista)
              THEN [df_filtrado |-> f, kpis |-> <<Kpis(f)>>, df_campanhas |-> camp,
                    insights |-> <<>>, erro |-> TRUE, aviso |-> FALSE]
              ELSE [df_filtrado |-> f, kpis |-> <<Kpis(f)>>, df_campanhas |-> camp,
                    insights |-> i1 \o i2, erro |-> FALSE, aviso |-> FALSE]

(* ---------------------------------------------------------------------- *)
(* Inputs                                                                 *)
(* ---------------------------------------------------------------------- *)
Linha(plat, camp, inv, imp, clk, leads, cli, out) ==
    [Plataforma |-> plat, Campanha |-> camp, Investimento |-> inv,
     Impressoes |-> imp, Cliques |-> clk, Leads |-> leads,
     Novos_Clientes |-> cli, Outros_Custos |-> out]

(* Numeric profiles <<inv, imp, clk, leads, cli, out>> of the rows of the  *)
(* whole-script specification:                                             *)
(*   1: CTR 1/2, CPL 90, no client                                         *)
(*   2: CTR 2, no lead, a cost cell that is text                           *)
(*   3: nothing spent, nothing shown                                       *)
(*   4: more clicks than impressions (CTR reset), CPL 10                   *)
Perfis ==
    { <<Int2F(180), Int2F(200), Int2F(1), Int2F(2), Int2F(0), Int2F(0)>>,
      <<Int2F(90),  Int2F(100), Int2F(2), Int2F(0), Int2F(2), Text>>,
      <<Int2F(0),   Int2F(0),   Int2F(0), Int2F(0), Int2F(0), Int2F(0)>>,
      <<Int2F(20),  Int2F(1),   Int2F(2), Int2F(2), Int2F(1), Int2F(5)>> }

(* (Plataforma, Campanha) cells of a CSV row; IdNaN is an empty cell. *)
ChavesCsv ==
    { <<"Meta", "B">>, <<"Meta", "A">>, <<"Google", "A">>,
      <<IdNaN, "A">>, <<"Meta", IdNaN>> }

Linhas ==
    { Linha(k[1], k[2], p[1], p[2], p[3], p[4], p[5], p[6]) :
        k \in ChavesCsv, p \in Perfis }

Tabelas == UNION { [1..n -> Linhas] : n \in 0..MaxRows }

(* Single rows of the calculator specification: every combination of the   *)
(* cells below, negative amounts, text and empty cells included.           *)
LinhasCalc ==
    { Linha(plat, camp, inv, imp, clk, leads, cli, out) :
        plat  \in {"Meta", IdNaN},
        camp  \in {"A", IdNaN},
        inv   \in {Int2F(-10), Int2F(0), Int2F(10), Int2F(90)},
        imp   \in {Int2F(0), Int2F(1), Int2F(100), NaN},
        clk   \in {Int2F(-1), Int2F(0), Int2F(1), Int2F(2)},
        leads \in {Int2F(0), Int2F(1), Int2F(3), Text},
        cli   \in {Int2F(0), Int2F(2)},
        out   \in {Int2F(0), Int2F(5), Text} }

(* ---------------------------------------------------------------------- *)
(* State machine                                                          *)
(* ---------------------------------------------------------------------- *)
Comeco ==
    /\ fase = "arquivo"
    /\ df_metricas = <<>>
    /\ plataforma_selecionada = {}
    /\ campanha_selecionada = {}
    /\ df_filtrado = <<>>
    /\ kpis = <<>>
    /\ df_campanhas = <<>>
    /\ insights = <<>>
    /\ erro = FALSE
    /\ aviso = FALSE

Init == csv \in Tabelas /\ Comeco

InitCalc == csv \in { <<r>> : r \in LinhasCalc } /\ Comeco

(* The script runs top to bottom with the selections P and C. *)
Executar(df, P, C) ==
    \E t \in {Painel(df, P, C)} :
        /\ plataforma_selecionada' = P
        /\ campanha_selecionada' = C
        /\ df_filtrado' = t.df_filtrado
        /\ kpis' = t.kpis
        /\ df_campanhas' = t.df_campanhas
        /\ insights' = t.insights
        /\ erro' = t.erro
        /\ aviso' = t.aviso

(* First run: the file is loaded and both multiselects show their default, *)
(* every option selected (lines 52-69).                                    *)
PrimeiraExecucao ==
    /\ fase = "arquivo"
    /\ fase' = "painel"
    /\ \E df \in {carregar_e_processar_dados(csv)} :
          /\ df_metricas' = df
          /\ Executar(df, Unique(df, "Plataforma"),
                      OpcoesCampanha(df, Unique(df, "Plataforma")))
    /\ UNCHANGED csv

(* The user changes the platform multiselect; the script reruns on the     *)
(* cached table and the campaign multiselect is rebuilt with its default.  *)
SelecionarPlataforma ==
    /\ fase = "painel"
    /\ \E P \in SUBSET Unique(df_metricas, "Plataforma") :
          /\ P # plataforma_selecionada
          /\ Executar(df_metricas, P, OpcoesCampanha(df_metricas, P))
    /\ UNCHANGED <<csv, fase, df_metricas>>

(* The user changes the campaign multiselect; the script reruns. *)
SelecionarCampanha ==
    /\ fase = "painel"
    /\ \E C \in SUBSET OpcoesCampanha(df_metricas, plataforma_selecionada) :
          /\ C # campanha_selecionada
          /\ Executar(df_metricas, plataforma_selecionada, C)
    /\ UNCHANGED <<csv, fase, df_metricas>>

Next == PrimeiraExecucao \/ SelecionarPlataforma \/ SelecionarCampanha

Spec == Init /\ [][Next]_vars

NextCalc == PrimeiraExecucao

SpecCalc == InitCalc /\ [][NextCalc]_vars

(* ---------------------------------------------------------------------- *)
(* Properties                                                             *)
(* ---------------------------------------------------------------------- *)
Derivados == {"CTR", "CPC", "CPM", "CPL", "CAC_Diario"}

(* A CSV cell that to_numeric turns into 0, and the integer an input cell  *)
(* stands for.                                                             *)
EhZero(x) == x.k # "num" \/ x.n = 0
Val(x) == IF x.k = "num" THEN x.n ELSE 0

(* C1: a derived field whose denominator is 0 is exactly 0 in the output,  *)
(* whatever the numerator, and no derived field of an output record is     *)
(* infinite or not-a-number.                                               *)
C1_ZeroDenominator ==
    fase = "painel" =>
      \A i \in 1..Len(csv) :
        LET r == csv[i]
            o == df_metricas[i]
        IN  /\ EhZero(r.Impressoes) => o.CTR = Zero /\ o.CPM = Zero
            /\ EhZero(r.Cliques) => o.CPC = Zero
            /\ EhZero(r.Leads) => o.CPL = Zero
            /\ EhZero(r.Novos_Clientes) => o.CAC_Diario = Zero
            /\ \A c \in Derivados : o[c].k = "num"

(* A negative amount over zero clicks and zero clients has been processed. *)
C1_Witness ==
    /\ fase = "painel"
    /\ Len(csv) = 1
    /\ Val(csv[1].Investimento) < 0
    /\ Val(csv[1].Cliques) = 0
    /\ Val(csv[1].Novos_Clientes) = 0
    /\ df_metricas[1].CPC = Zero
    /\ df_metricas[1].CAC_Diario = Zero

(* C2: with impressions > 0, ctr is clicks/impressions*100 when that is at *)
(* most 100 (exactly 100 is kept) and 0, not 100, when it is above 100.    *)
C2_CtrCap ==
    fase = "painel" =>
      \A i \in 1..Len(csv) :
        LET imp == Val(csv[i].Impressoes)
            clk == Val(csv[i].Cliques)
        IN  imp > 0 =>
              /\ clk * 100 <= 100 * imp => df_metricas[i].CTR = Num(clk * 100, imp)
              /\ clk * 100 > 100 * imp => df_metricas[i].CTR = Zero

(* Two clicks on one impression: 200 percent, reset to 0. *)
C2_Witness ==
    /\ fase = "painel"
    /\ Len(csv) = 1
    /\ Val(csv[1].Impressoes) = 1
    /\ Val(csv[1].Cliques) = 2
    /\ df_metricas[1].CTR = Zero

Has(tipo) == \E i \in 1..Len(insights) : insights[i].tipo = tipo
Count(tipo) == Cardinality({i \in 1..Len(insights) : insights[i].tipo = tipo})
Positivo(x) == x.k = "num" /\ x.n > 0
FaltaId == \E i \in 1..Len(csv) : csv[i].Plataforma = IdNaN \/ csv[i].Campanha = IdNaN
TemZero(df) ==
    \E i \in 1..Len(df) : df[i].Plataforma = IdZero \/ df[i].Campanha = IdZero

(* The rollups whose mean CPL is strictly above the threshold. *)
Acima == SelectSeq(df_campanhas,
                   LAMBDA r : r.CPL_Medio.n > cpl_limite_alerta * r.CPL_Medio.d)

(* C3: over a non-empty filtered set exactly one of high_cpl_alert and ok  *)
(* is emitted; high_cpl_alert is emitted iff some rollup has a mean CPL    *)
(* strictly above 50, and it names the campaigns of exactly the rollups    *)
(* above 50 (a mean of exactly 50 does not count).                         *)
C3_HighCplRule ==
    fase = "painel" /\ df_filtrado # <<>> =>
      /\ Count("high_cpl_alert") + Count("ok") = 1
      /\ Has("high_cpl_alert") <=> Acima # <<>>
      /\ \A i \in 1..Len(insights) :
           insights[i].tipo = "high_cpl_alert" =>
             insights[i].campanhas = Col(Acima, "Campanha")

(* C4: over a non-empty filtered set low_ctr_warning is emitted iff the    *)
(* investment sums to more than 0 and the mean of the per-record CTR is    *)
(* strictly below 1, whatever the high-CPL rule did.                       *)
C4_LowCtrRule ==
    fase = "painel" /\ df_filtrado # <<>> =>
      LET inv == FSum(Col(df_filtrado, "Investimento"))
          ctr == FSum(Col(df_filtrado, "CTR"))
      IN  Has("low_ctr_warning") <=>
            (inv.n > 0 /\ ctr.n < ctr_limite * Len(df_filtrado) * ctr.d)

(* C5: over a non-empty filtered set cpl_overall is sum(investment) over   *)
(* sum(leads), and cac_overall is sum(total_daily_cost) over               *)
(* sum(new_clients), each 0 when its denominator sum is not above 0.       *)
C5_RatioOfSums ==
    fase = "painel" /\ df_filtrado # <<>> =>
      /\ Len(kpis) = 1
      /\ LET si == FSum(Col(df_filtrado, "Investimento"))
             sl == FSum(Col(df_filtrado, "Leads"))
             sc == FSum(Col(df_filtrado, "Custo_Total_Diario"))
             sn == FSum(Col(df_filtrado, "Novos_Clientes"))
         IN  /\ kpis[1].cpl_medio = (IF sl.n > 0 THEN Num(si.n * sl.d, si.d * sl.n) ELSE Zero)
             /\ kpis[1].cac_geral = (IF sn.n > 0 THEN Num(sc.n * sn.d, sc.d * sn.n) ELSE Zero)

(* The ratio of sums is shown and differs from the mean of the row CPLs. *)
C5_Witness ==
    /\ fase = "painel"
    /\ Len(df_filtrado) = 2
    /\ Positivo(FSum(Col(df_filtrado, "Leads")))
    /\ Positivo(FSum(Col(df_filtrado, "Novos_Clientes")))
    /\ Len(kpis) = 1
    /\ kpis[1].cpl_medio # FMean(Col(df_filtrado, "CPL"))
    /\ kpis[1].cac_geral # FMean(Col(df_filtrado, "CAC_Diario"))

ChavesRollup == [i \in 1..Len(df_campanhas) |->
                    <<df_campanhas[i].Plataforma, df_campanhas[i].Campanha>>]

(* C6 as stated: one rollup per distinct key of the filtered set, in the   *)
(* order in which the keys are first seen in the filtered rows.            *)
C6_FirstSeenOrder ==
    fase = "painel" /\ df_filtrado # <<>> =>
      ChavesRollup = PrimeiraVista(df_filtrado)

(* C6 amended: one rollup per distinct key of the filtered set, in         *)
(* ascending order of (platform, campaign), whatever the order of the rows.*)
C6_SortedOrder ==
    fase = "painel" /\ df_filtrado # <<>> =>
      /\ {ChavesRollup[i] : i \in 1..Len(df_campanhas)} = Chaves(df_filtrado)
      /\ \A i \in 1..Len(df_campanhas) - 1 :
           KeyLess(ChavesRollup[i], ChavesRollup[i + 1])

(* Two rollups whose sorted order is the reverse of their first-seen order.*)
C6_Witness ==
    /\ fase = "painel"
    /\ Len(df_campanhas) = 2
    /\ ChavesRollup # PrimeiraVista(df_filtrado)

(* C7: when a record lacks its platform or campaign identifier, an error   *)
(* is reported and no record is kept, grouped or counted under a           *)
(* substituted identifier.                                                 *)
C7_StructuralError ==
    fase = "painel" /\ FaltaId =>
      /\ erro
      /\ ~TemZero(df_metricas)
      /\ ~TemZero(df_campanhas)
      /\ kpis = <<>>
      /\ insights = <<>>

(* The rows of the loaded table that pass both selections. *)
Passa(r) == r.Plataforma \in plataforma_selecionada /\ r.Campanha \in campanha_selecionada
Passam == {i \in 1..Len(df_metricas) : Passa(df_metricas[i])}
FiltroExato ==
    /\ Len(df_filtrado) = Cardinality(Passam)
    /\ {df_filtrado[j] : j \in 1..Len(df_filtrado)} = {df_metricas[i] : i \in Passam}

KpisZero == [cpc_medio |-> Zero, ctr_medio |-> Zero, cpl_medio |-> Zero, cac_geral |-> Zero]

(* C8 as stated: a record is in the filtered set iff its platform and its  *)
(* campaign are both selected; when none is, there are no rollups, no      *)
(* insights, no error, and a KPI summary whose four values are 0.          *)
C8_EmptyAllZero ==
    fase = "painel" =>
      /\ FiltroExato
      /\ Passam = {} =>
           /\ df_campanhas = <<>>
           /\ insights = <<>>
           /\ ~erro
           /\ kpis = <<KpisZero>>

(* C8 amended: the same, except that on an empty filtered set no KPI       *)
(* summary is produced at all (no KPI is computed, so nothing is divided); *)
(* only the notice that no data matches is shown.                          *)
C8_EmptyNoKpis ==
    fase = "painel" =>
      /\ FiltroExato
      /\ Passam = {} =>
           /\ df_campanhas = <<>>
           /\ insights = <<>>
           /\ ~erro
           /\ kpis = <<>>
           /\ aviso
      /\ Passam # {} => ~aviso /\ Len(kpis) = 1

(* A loaded table whose rows are all filtered out by an empty campaign     *)
(* selection under a non-empty platform selection.                         *)
C8_Witness ==
    /\ fase = "painel"
    /\ df_metricas # <<>>
    /\ plataforma_selecionada # {}
    /\ campanha_selecionada = {}
    /\ df_filtrado = <<>>
    /\ aviso

MesmaChave(r, g) == r.Plataforma = g.Plataforma /\ r.Campanha = g.Campanha

(* C9: a rollup's investment_sum is the sum of investment over exactly the *)
(* filtered records with the rollup's key; every filtered record is in     *)
(* exactly one rollup, so the rollups' sums add up to the total investment.*)
C9_InvestmentSum ==
    fase = "painel" /\ df_filtrado # <<>> =>
      /\ \A i \in 1..Len(df_campanhas) :
           df_campanhas[i].Investimento =
             FSum(Col(SelectSeq(df_filtrado,
                                LAMBDA r : MesmaChave(r, df_campanhas[i])),
                      "Investimento"))
      /\ \A j \in 1..Len(df_filtrado) :
           Cardinality({i \in 1..Len(df_campanhas) :
                          MesmaChave(df_filtrado[j], df_campanhas[i])}) = 1
      /\ FSum(Col(df_campanhas, "Investimento")) = FSum(Col(df_filtrado, "Investimento"))

(* Two platforms run a campaign of the same name; each has its own rollup. *)
C9_Witness ==
    /\ fase = "painel"
    /\ Len(df_filtrado) = 2
    /\ Len(df_campanhas) = 2
    /\ df_campanhas[1].Campanha = df_campanhas[2].Campanha
    /\ Positivo(df_campanhas[1].Investimento)
    /\ Positivo(df_campanhas[2].Investimento)

(* The per-record CPL, CTR and CPC recomputed from the base columns. *)
CplDe(r) == IF r.Leads.n = 0 THEN Zero ELSE Num(r.Investimento.n * r.Leads.d,
                                                r.Investimento.d * r.Leads.n)
CpcDe(r) == IF r.Cliques.n = 0 THEN Zero ELSE Num(r.Investimento.n * r.Cliques.d,
                                                  r.Investimento.d * r.Cliques.n)
CtrDe(r) ==
    IF r.Impressoes.n = 0 THEN Zero
    ELSE LET x == Num(100 * r.Cliques.n * r.Impressoes.d, r.Cliques.d * r.Impressoes.n)
         IN  IF x.n > 100 * x.d THEN Zero ELSE x
MediaDe(df, F(_)) ==
    LET t == FSum([j \in 1..Len(df) |-> F(df[j])])
    IN  Num(t.n, t.d * Len(df))

(* C10: a rollup's cpl_mean is the sum of the group's per-record CPL over  *)
(* the number of records of the group, a record without leads counting as  *)
(* 0 in the sum and as 1 in the divisor; likewise ctr_mean with zero-      *)
(* guarded or reset CTR, and the KPI cpc_mean and ctr_mean over the whole  *)
(* filtered set.                                                           *)
C10_MeanOfRatios ==
    fase = "painel" /\ df_filtrado # <<>> =>
      /\ \A i \in 1..Len(df_campanhas) :
           LET g == SelectSeq(df_filtrado, LAMBDA r : MesmaChave(r, df_campanhas[i]))
           IN  /\ df_campanhas[i].CPL_Medio = MediaDe(g, CplDe)
               /\ df_campanhas[i].CTR_Medio = MediaDe(g, CtrDe)
      /\ Len(kpis) = 1
      /\ kpis[1].cpc_medio = MediaDe(df_filtrado, CpcDe)
      /\ kpis[1].ctr_medio = MediaDe(df_filtrado, CtrDe)

(* One group of two records, one without leads and one with CPL 90: the    *)
(* mean is 45.                                                             *)
C10_Witness ==
    /\ fase = "painel"
    /\ Len(df_filtrado) = 2
    /\ Len(df_campanhas) = 1
    /\ \E j \in 1..2 : df_filtrado[j].Leads = Zero /\ Positivo(df_filtrado[j].Investimento)
    /\ df_campanhas[1].CPL_Medio = Int2F(45)

====
